---- MODULE Spec2Model ----
(***************************************************************************)
(* Two-sensor foot-traffic meter (double_sensor_logic.py): the run loop of *)
(* main(), its inner confirmation loops, the daily CSV log and the wall    *)
(* clock, as a state machine.  Time is a discrete clock `now`; distances   *)
(* are small naturals standing for millimetres.  The calibration           *)
(* procedures and the single-sensor variant (sensor_logic.py) follow as    *)
(* specifications of their own.                                            *)
(***************************************************************************)
EXTENDS Integers, Sequences, FiniteSets, TLC

\* ---------------------------------------------------------------- bounds
MaxDist == 3        \* sensor readings range over 0..MaxDist
MaxTime == 6        \* the clock stops the exploration at MaxTime
MaxJitter == 1      \* extra time a sleep or a pair of sensor reads may take
DayLength == 4      \* clock units per calendar day
MaxCalDist == 1     \* in-range calibration readings range over 0..MaxCalDist
MaxSamples == 2     \* iterations one 3-second calibration window may run
MaxClock == 7       \* sensor_logic.py: the clock stops the exploration here
MaxStep == 3        \* sensor_logic.py: longest time one pass of the loop takes
MaxReadings == 4    \* sensor_logic.py: longest list of readings of an episode

\* ------------------------------------------------- configuration values
PollInterval == 1   \* cfg['poll_interval']
EventTimeout == 2   \* cfg['event_timeout']
ResetTime == 2      \* cfg['reset_time']

\* The value min_tdt and max_tdt start from in set_tdt_values.
TdtStartValue == 8000

\* sensor_logic.py: module-level distances (mm) and the tracking timeout (s).
baseline_distance == 1200
obstruction_size == 200
TrackingTimeout == 5

Distances == 0..MaxDist
Times == 0..MaxTime
Dates == 0..(MaxTime \div DayLength)
Jitter == 0..MaxJitter

\* A local variable of main() that no assignment has bound yet.
Unbound == 0 - 1

VARIABLES
    pc,                    \* position of main(): see PcValues
    err,                   \* the exception that ended main(), or "none"
    state,                 \* 'idle' | 'maybe_entry' | 'maybe_exit'
    now,                   \* the wall clock
    timeout_time,          \* deadline armed on leaving idle
    min_tdt, max_tdt,      \* the TDT window loaded from the config
    entry_sensor_reading,  \* last sample of the entry sensor
    exit_sensor_reading,   \* last sample of the exit sensor
    current_date,          \* date key computed at the top of the tick
    current_time,          \* time string computed after the tick's reads
    date_bookmark,         \* date at start-up
    daily_log_path,        \* path of the log of the tick (a date key)
    daily_log_file,        \* "unbound" or "closed": the last `with` target
    files,                 \* the logs directory: path -> sequence of rows
    emails                 \* log paths handed to send_email, in order

VARIABLES
    cpc,                   \* position of the calibration procedures
    cal_min_tdt,           \* min_tdt of set_tdt_values
    cal_max_tdt,           \* max_tdt of set_tdt_values
    entry_sensor_baseline, \* of set_baseline_values
    exit_sensor_baseline,  \* of set_baseline_values
    samples,               \* iterations the current window has run
    seen_entry,            \* readings the entry sensor has returned
    seen_exit,             \* readings the exit sensor has returned
    notices                \* 'Calibration interrupted by user.' printed

calvars == <<cpc, cal_min_tdt, cal_max_tdt, entry_sensor_baseline,
             exit_sensor_baseline, samples, seen_entry, seen_exit, notices>>

\* The single-sensor variant, sensor_logic.py.  Names that main() of
\* double_sensor_logic.py also uses carry the prefix sl_.
VARIABLES
    sl_pc,                 \* "off" | "loop" | "stopped" | "crashed"
    sl_err,                \* the exception that ended main(), or "none"
    sl_state,              \* "idle" | "tracking"
    sl_now,                \* time.time() / datetime.now()
    current_distance,      \* the reading of the pass
    sl_current_time,       \* current_time of the pass
    readings,              \* (timestamp, distance) tuples of the episode
    direction,             \* the last result of evaluate_movement
    foot_traffic,          \* module-level entry count
    person_leaves,         \* module-level exit count
    sl_files               \* the working directory: file name -> rows

slvars == <<sl_pc, sl_err, sl_state, sl_now, current_distance,
            sl_current_time, readings, direction, foot_traffic,
            person_leaves, sl_files>>

vars == <<pc, err, state, now, timeout_time, min_tdt, max_tdt,
          entry_sensor_reading, exit_sensor_reading, current_date,
          current_time, date_bookmark, daily_log_path, daily_log_file,
          files, emails>>

allvars == <<vars, calvars>>

PcValues == {"startup", "tick", "maybe_entry_loop", "maybe_exit_loop", "reset_sleep",
             "poll_sleep", "stopped", "crashed"}

DateOf(t) == t \div DayLength

HeaderRow == [kind |-> "header", date |-> Unbound, time |-> Unbound,
              entry |-> Unbound, exit |-> Unbound]

\* ------------------------------------------------------- pure decisions

\* InTDT with the upper bound excluded.
InTDT_Exclusive(d) == min_tdt <= d /\ d < max_tdt

\* `min_tdt <= reading <= max_tdt`, the test of lines 398, 403, 415, 438.
InTDT(d) == min_tdt <= d /\ d <= max_tdt

\* IdleTransition arming maybe_entry on either sensor.
IdleTransition_AnySensor(e, x) ==
    IF (min_tdt <= e /\ e <= max_tdt) \/ (min_tdt <= x /\ x <= max_tdt)
    THEN "maybe_entry"
    ELSE "idle"

\* IdleTransition testing the exit sensor first.
IdleTransition_ExitFirst(e, x) ==
    IF min_tdt <= x /\ x <= max_tdt THEN "maybe_exit"
    ELSE IF min_tdt <= e /\ e <= max_tdt THEN "maybe_entry"
    ELSE "idle"

\* The `if state == 'idle'` block: the state after it.
IdleTransition(e, x) ==
    IF InTDT(e) THEN "maybe_entry"
    ELSE IF InTDT(x) THEN "maybe_exit"
    ELSE "idle"

\* ArmDeadline without the timeout added.
ArmDeadline_NoTimeout(t) == t

\* The deadline armed when the idle block leaves idle at time t.
ArmDeadline(t) == t + EventTimeout

\* TimedOut never abandoning.
TimedOut_Never(t, e, x) == FALSE

\* TimedOut with the "has cleared" tests made inclusive.
TimedOut_NonStrict(t, e, x) ==
    t >= timeout_time /\ e >= max_tdt /\ x >= max_tdt

\* TimedOut with a strict deadline test.
TimedOut_Strict(t, e, x) == t > timeout_time /\ e > max_tdt /\ x > max_tdt

\* The timeout test that closes an iteration of either inner loop.
TimedOut(t, e, x) == t >= timeout_time /\ e > max_tdt /\ x > max_tdt

\* EntryRow and ExitRow with the two count columns exchanged.
EntryRow_Swapped == [kind |-> "event", date |-> current_date,
                     time |-> current_time, entry |-> 0, exit |-> 1]
ExitRow_Swapped == [kind |-> "event", date |-> current_date,
                    time |-> current_time, entry |-> 1, exit |-> 0]

\* The rows the inner loops write.
EntryRow == [kind |-> "event", date |-> current_date, time |-> current_time,
             entry |-> 1, exit |-> 0]
ExitRow == [kind |-> "event", date |-> current_date, time |-> current_time,
            entry |-> 0, exit |-> 1]

\* WriteRow dropping a row that arrives at or after the deadline.
WriteRow_NotAfterDeadline(rows, row) ==
    IF now' >= timeout_time THEN rows ELSE Append(rows, row)

\* WriteRow writing the row twice.
WriteRow_Twice(rows, row) == Append(Append(rows, row), row)

\* csv_writer.writerow(row) on the log opened in append mode.
WriteRow(rows, row) == Append(rows, row)

\* SleepEnds returning without waiting.
SleepEnds_NoWait(t, secs) == {t + j : j \in Jitter} \cap Times

\* Times at which time.sleep(secs), started at t, may return.
SleepEnds(t, secs) == {t + secs + j : j \in Jitter} \cap Times

\* ------------------------------------------------------------- helpers

EventRows(rows) == SelectSeq(rows, LAMBDA r : r.kind = "event")

RECURSIVE EventCountOver(_)
EventCountOver(S) ==
    IF S = {} THEN 0
    ELSE LET p == CHOOSE q \in S : TRUE
         IN Len(EventRows(files[p])) + EventCountOver(S \ {p})

\* Number of event rows in all logs.
EventCount == EventCountOver(DOMAIN files)

\* Raise with the exception swallowed: the loop goes on to its sleep.
Raise_Swallowed(e) == pc' = "poll_sleep" /\ err' = e

\* main() ends with an exception other than KeyboardInterrupt.
Raise(e) == pc' = "crashed" /\ err' = e

\* sensor_logic.py is not running.
SlOff ==
    /\ sl_pc = "off"
    /\ sl_err = "none"
    /\ sl_state = "idle"
    /\ sl_now = 0
    /\ current_distance = Unbound
    /\ sl_current_time = Unbound
    /\ readings = <<>>
    /\ direction = "unbound"
    /\ foot_traffic = 0
    /\ person_leaves = 0
    /\ sl_files = <<>>

\* --------------------------------------------------------------- Init

Init ==
    /\ pc = "tick"
    /\ err = "none"
    /\ state = "idle"
    /\ now \in {0, DayLength}
    /\ timeout_time = Unbound
    /\ min_tdt \in Distances
    /\ max_tdt \in Distances
    /\ entry_sensor_reading = Unbound
    /\ exit_sensor_reading = Unbound
    /\ current_date = Unbound
    /\ current_time = Unbound
    /\ date_bookmark \in {DateOf(now), DateOf(now) - 1} \cap Dates
    /\ daily_log_path = Unbound
    /\ daily_log_file = "unbound"
    /\ \E existing \in SUBSET Dates : files = [p \in existing |-> <<HeaderRow>>]
    /\ emails = <<>>
    /\ cpc = "off"
    /\ cal_min_tdt = Unbound
    /\ cal_max_tdt = Unbound
    /\ entry_sensor_baseline = Unbound
    /\ exit_sensor_baseline = Unbound
    /\ samples = 0
    /\ seen_entry = {}
    /\ seen_exit = {}
    /\ notices = 0
    /\ SlOff

\* ------------------------------------------------------------- actions

\* One pass of the outer `while True` from line 372 to the end of the idle
\* block (line 407): day rollover, log creation, the two reads, the idle
\* transition.
Tick ==
    /\ pc = "tick"
    /\ UNCHANGED <<calvars, slvars>>
    /\ current_date' = DateOf(now)
    /\ UNCHANGED <<now, min_tdt, max_tdt, date_bookmark>>
    /\ IF DateOf(now) # date_bookmark /\ daily_log_path = Unbound
       THEN \* line 376 reads daily_log_path before its first assignment
            /\ Raise("UnboundLocalError")
            /\ UNCHANGED <<state, timeout_time, entry_sensor_reading,
                           exit_sensor_reading, current_time, daily_log_path,
                           daily_log_file, files, emails>>
       ELSE
       /\ emails' = IF DateOf(now) # date_bookmark
                    THEN Append(emails, daily_log_path) ELSE emails
       /\ daily_log_path' = DateOf(now)
       /\ IF DateOf(now) \notin DOMAIN files
          THEN \* lines 382-385: csv.writer(daily_log_file) before the open
               /\ IF daily_log_file = "unbound"
                  THEN Raise("UnboundLocalError") /\ files' = files
                  ELSE /\ Raise("ValueError")
                       /\ files' = (DateOf(now) :> <<>>) @@ files
               /\ UNCHANGED <<state, timeout_time, entry_sensor_reading,
                              exit_sensor_reading, current_time,
                              daily_log_file>>
          ELSE
          /\ UNCHANGED <<files, daily_log_file>>
          /\ \/ \* the entry sensor's read fails
                /\ Raise("SensorReadError")
                /\ UNCHANGED <<state, timeout_time, entry_sensor_reading,
                               exit_sensor_reading, current_time>>
             \/ \* the exit sensor's read fails
                /\ \E e \in Distances : entry_sensor_reading' = e
                /\ Raise("SensorReadError")
                /\ UNCHANGED <<state, timeout_time, exit_sensor_reading,
                               current_time>>
             \/ \E e \in Distances, x \in Distances :
                /\ entry_sensor_reading' = e
                /\ exit_sensor_reading' = x
                /\ current_time' = now
                /\ err' = err
                /\ IF state = "idle"
                   THEN /\ state' = IdleTransition(e, x)
                        /\ timeout_time' = IF state' = "idle" THEN timeout_time
                                           ELSE ArmDeadline(now)
                   ELSE UNCHANGED <<state, timeout_time>>
                /\ pc' = CASE state' = "maybe_entry" -> "maybe_entry_loop"
                           [] state' = "maybe_exit" -> "maybe_exit_loop"
                           [] OTHER -> "poll_sleep"

\* One iteration of `while state == 'maybe_entry'` (lines 410-430).
PollEntry ==
    /\ pc = "maybe_entry_loop"
    /\ UNCHANGED <<calvars, slvars>>
    /\ UNCHANGED <<min_tdt, max_tdt, current_date, current_time,
                   date_bookmark, daily_log_path, emails>>
    /\ \E t \in {now + j : j \in Jitter} \cap Times :
       /\ now' = t
       /\ \/ /\ Raise("SensorReadError")
             /\ UNCHANGED <<state, timeout_time, entry_sensor_reading,
                            exit_sensor_reading, daily_log_file, files>>
          \/ /\ \E e \in Distances : entry_sensor_reading' = e
             /\ Raise("SensorReadError")
             /\ UNCHANGED <<state, timeout_time, exit_sensor_reading,
                            daily_log_file, files>>
          \/ \E e \in Distances, x \in Distances :
             /\ entry_sensor_reading' = e
             /\ exit_sensor_reading' = x
             /\ timeout_time' = timeout_time
             /\ IF InTDT(x)
                THEN \/ \* the row is appended; time.sleep(reset_time) begins
                        /\ files' = [files EXCEPT ![daily_log_path] =
                                         WriteRow(@, EntryRow)]
                        /\ daily_log_file' = "closed"
                        /\ pc' = "reset_sleep"
                        /\ UNCHANGED <<state, err>>
                     \/ \* open() or writerow() fails
                        /\ Raise("SinkWriteError")
                        /\ UNCHANGED <<state, daily_log_file, files>>
                ELSE /\ UNCHANGED <<daily_log_file, files, err>>
                     /\ IF TimedOut(t, e, x)
                        THEN state' = "idle" /\ pc' = "poll_sleep"
                        ELSE state' = state /\ pc' = pc

\* One iteration of `while state == 'maybe_exit'` (lines 433-453).
PollExit ==
    /\ pc = "maybe_exit_loop"
    /\ UNCHANGED <<calvars, slvars>>
    /\ UNCHANGED <<min_tdt, max_tdt, current_date, current_time,
                   date_bookmark, daily_log_path, emails>>
    /\ \E t \in {now + j : j \in Jitter} \cap Times :
       /\ now' = t
       /\ \/ /\ Raise("SensorReadError")
             /\ UNCHANGED <<state, timeout_time, entry_sensor_reading,
                            exit_sensor_reading, daily_log_file, files>>
          \/ /\ \E e \in Distances : entry_sensor_reading' = e
             /\ Raise("SensorReadError")
             /\ UNCHANGED <<state, timeout_time, exit_sensor_reading,
                            daily_log_file, files>>
          \/ \E e \in Distances, x \in Distances :
             /\ entry_sensor_reading' = e
             /\ exit_sensor_reading' = x
             /\ timeout_time' = timeout_time
             /\ IF InTDT(e)
                THEN \/ /\ files' = [files EXCEPT ![daily_log_path] =
                                         WriteRow(@, ExitRow)]
                        /\ daily_log_file' = "closed"
                        /\ pc' = "reset_sleep"
                        /\ UNCHANGED <<state, err>>
                     \/ /\ Raise("SinkWriteError")
                        /\ UNCHANGED <<state, daily_log_file, files>>
                ELSE /\ UNCHANGED <<daily_log_file, files, err>>
                     /\ IF TimedOut(t, e, x)
                        THEN state' = "idle" /\ pc' = "poll_sleep"
                        ELSE state' = state /\ pc' = pc

\* time.sleep(reset_time) returns, `state = 'idle'`, and the rest of the
\* iteration (lines 421-430 / 444-453): the inner loop ends.
ResetSleep ==
    /\ pc = "reset_sleep"
    /\ UNCHANGED <<calvars, slvars>>
    /\ \E t \in SleepEnds(now, ResetTime) : now' = t
    /\ state' = "idle"
    /\ pc' = "poll_sleep"
    /\ UNCHANGED <<err, timeout_time, min_tdt, max_tdt, entry_sensor_reading,
                   exit_sensor_reading, current_date, current_time,
                   date_bookmark, daily_log_path, daily_log_file, files,
                   emails>>

\* time.sleep(poll_interval), line 455, then the next pass.
PollSleep ==
    /\ pc = "poll_sleep"
    /\ UNCHANGED <<calvars, slvars>>
    /\ \E t \in SleepEnds(now, PollInterval) : now' = t
    /\ pc' = "tick"
    /\ UNCHANGED <<err, state, timeout_time, min_tdt, max_tdt,
                   entry_sensor_reading, exit_sensor_reading, current_date,
                   current_time, date_bookmark, daily_log_path,
                   daily_log_file, files, emails>>

\* Interrupt with a handler that resets the resolver before stopping.
Interrupt_ResetsState ==
    /\ UNCHANGED <<calvars, slvars>>
    /\ pc \in {"tick", "maybe_entry_loop", "maybe_exit_loop", "reset_sleep",
               "poll_sleep"}
    /\ pc' = "stopped"
    /\ state' = "idle"
    /\ UNCHANGED <<err, now, timeout_time, min_tdt, max_tdt,
                   entry_sensor_reading, exit_sensor_reading, current_date,
                   current_time, date_bookmark, daily_log_path,
                   daily_log_file, files, emails>>

\* Ctrl+C anywhere inside the try block: `except KeyboardInterrupt`.
Interrupt ==
    /\ UNCHANGED <<calvars, slvars>>
    /\ pc \in {"tick", "maybe_entry_loop", "maybe_exit_loop", "reset_sleep",
               "poll_sleep"}
    /\ pc' = "stopped"
    /\ UNCHANGED <<err, state, now, timeout_time, min_tdt, max_tdt,
                   entry_sensor_reading, exit_sensor_reading, current_date,
                   current_time, date_bookmark, daily_log_path,
                   daily_log_file, files, emails>>

Next ==
    \/ Tick
    \/ PollEntry
    \/ PollExit
    \/ ResetSleep
    \/ PollSleep
    \/ Interrupt

Spec == Init /\ [][Next]_vars

\* A start on the first day with the log of every day already in the logs
\* directory: the start-ups from which the loop can run to the clock's end.
InitFair ==
    /\ Init
    /\ now = 0
    /\ date_bookmark = DateOf(now)
    /\ DOMAIN files = Dates

\* The run loop while the wall clock advances: an inner loop that keeps
\* iterating sees datetime.now() move on.
SpecFair ==
    /\ InitFair /\ [][Next]_vars
    /\ WF_vars(PollEntry /\ now' > now)
    /\ WF_vars(PollExit /\ now' > now)


\* ---------------------------------------------------------- calibration
\* set_tdt_values and set_baseline_values, as main() calls them at lines
\* 337-338 before the run loop, and the installation of their results.

CpcValues == {"off", "tdt_prompt1", "tdt_window1", "tdt_prompt2",
              "tdt_window2", "tdt_return", "base_prompt",
              "base_window_entry", "base_window_exit", "base_return",
              "calibrated", "raised"}

\* What a sensor may return during calibration: an in-range distance, or a
\* value above the one the TDT search starts from.
CalReadings == (0..MaxCalDist) \cup {TdtStartValue + 1}

\* FoldMin keeping the larger value.
FoldMin_Inverted(acc, r) == IF r > acc THEN r ELSE acc

\* `if reading < acc: acc = reading`, lines 147-150, 170-173, 212-213, 227-228.
FoldMin(acc, r) == IF r < acc THEN r ELSE acc

\* AfterInterrupt with no handler around the sampling loops.
AfterInterrupt_Abort(c) == "raised"

\* Where Ctrl+C arriving at position c leaves the procedures: the sampling
\* loops are inside `try ... except KeyboardInterrupt`, the prompts and the
\* initial baseline reads are not.
AfterInterrupt(c) ==
    CASE c = "tdt_window1" -> "tdt_prompt2"
      [] c = "tdt_window2" -> "tdt_return"
      [] c = "base_window_entry" -> "base_window_exit"
      [] c = "base_window_exit" -> "base_return"
      [] OTHER -> "raised"

\* An exception leaves the calibration procedure, and main() with it.
CalRaise(e) ==
    /\ cpc' = "raised"
    /\ pc' = "crashed"
    /\ err' = e
    /\ UNCHANGED <<state, now, timeout_time, min_tdt, max_tdt,
                   entry_sensor_reading, exit_sensor_reading, current_date,
                   current_time, date_bookmark, daily_log_path,
                   daily_log_file, files, emails>>

CalInit ==
    /\ pc = "startup"
    /\ err = "none"
    /\ state = "idle"
    /\ now = 0
    /\ timeout_time = Unbound
    /\ min_tdt = Unbound
    /\ max_tdt = Unbound
    /\ entry_sensor_reading = Unbound
    /\ exit_sensor_reading = Unbound
    /\ current_date = Unbound
    /\ current_time = Unbound
    /\ date_bookmark = Unbound
    /\ daily_log_path = Unbound
    /\ daily_log_file = "unbound"
    /\ files = [p \in {} |-> <<>>]
    /\ emails = <<>>
    /\ cpc = "tdt_prompt1"
    /\ cal_min_tdt = Unbound
    /\ cal_max_tdt = Unbound
    /\ entry_sensor_baseline = Unbound
    /\ exit_sensor_baseline = Unbound
    /\ samples = 0
    /\ seen_entry = {}
    /\ seen_exit = {}
    /\ notices = 0
    /\ SlOff

\* Enter at the first prompt; lines 129-140.
TdtPrompt1 ==
    /\ UNCHANGED slvars
    /\ cpc = "tdt_prompt1"
    /\ cpc' = "tdt_window1"
    /\ cal_min_tdt' = TdtStartValue
    /\ cal_max_tdt' = TdtStartValue
    /\ samples' = 0
    /\ seen_entry' = {}
    /\ seen_exit' = {}
    /\ UNCHANGED <<entry_sensor_baseline, exit_sensor_baseline, notices>>
    /\ UNCHANGED vars

\* One iteration of the min TDT loop; lines 143-151.
TdtSample1 ==
    /\ UNCHANGED slvars
    /\ cpc = "tdt_window1"
    /\ samples < MaxSamples
    /\ \/ /\ CalRaise("SensorReadError")
          /\ UNCHANGED <<cal_min_tdt, cal_max_tdt, entry_sensor_baseline,
                         exit_sensor_baseline, samples, seen_entry,
                         seen_exit, notices>>
       \/ \E e \in CalReadings, x \in CalReadings :
          /\ seen_entry' = seen_entry \cup {e}
          /\ seen_exit' = seen_exit \cup {x}
          /\ cal_min_tdt' = FoldMin(FoldMin(cal_min_tdt, e), x)
          /\ samples' = samples + 1
          /\ UNCHANGED <<cpc, cal_max_tdt, entry_sensor_baseline,
                         exit_sensor_baseline, notices>>
          /\ UNCHANGED vars

\* The first window's 3 seconds are over; line 143, then the prompt of 155.
TdtEnd1 ==
    /\ UNCHANGED slvars
    /\ cpc = "tdt_window1"
    /\ samples >= 1
    /\ cpc' = "tdt_prompt2"
    /\ UNCHANGED <<cal_min_tdt, cal_max_tdt, entry_sensor_baseline,
                   exit_sensor_baseline, samples, seen_entry, seen_exit,
                   notices>>
    /\ UNCHANGED vars

\* Enter at the second prompt; lines 156-163.
TdtPrompt2 ==
    /\ UNCHANGED slvars
    /\ cpc = "tdt_prompt2"
    /\ cpc' = "tdt_window2"
    /\ samples' = 0
    /\ seen_entry' = {}
    /\ seen_exit' = {}
    /\ UNCHANGED <<cal_min_tdt, cal_max_tdt, entry_sensor_baseline,
                   exit_sensor_baseline, notices>>
    /\ UNCHANGED vars

\* One iteration of the max TDT loop; lines 166-174.
TdtSample2 ==
    /\ UNCHANGED slvars
    /\ cpc = "tdt_window2"
    /\ samples < MaxSamples
    /\ \/ /\ CalRaise("SensorReadError")
          /\ UNCHANGED <<cal_min_tdt, cal_max_tdt, entry_sensor_baseline,
                         exit_sensor_baseline, samples, seen_entry,
                         seen_exit, notices>>
       \/ \E e \in CalReadings, x \in CalReadings :
          /\ seen_entry' = seen_entry \cup {e}
          /\ seen_exit' = seen_exit \cup {x}
          /\ cal_max_tdt' = FoldMin(FoldMin(cal_max_tdt, e), x)
          /\ samples' = samples + 1
          /\ UNCHANGED <<cpc, cal_min_tdt, entry_sensor_baseline,
                         exit_sensor_baseline, notices>>
          /\ UNCHANGED vars

\* The second window's 3 seconds are over; line 166.
TdtEnd2 ==
    /\ UNCHANGED slvars
    /\ cpc = "tdt_window2"
    /\ samples >= 1
    /\ cpc' = "tdt_return"
    /\ UNCHANGED <<cal_min_tdt, cal_max_tdt, entry_sensor_baseline,
                   exit_sensor_baseline, samples, seen_entry, seen_exit,
                   notices>>
    /\ UNCHANGED vars

\* `return min_tdt, max_tdt` into main()'s locals; lines 178-180 and 337.
TdtReturn ==
    /\ UNCHANGED slvars
    /\ cpc = "tdt_return"
    /\ cpc' = "base_prompt"
    /\ min_tdt' = cal_min_tdt
    /\ max_tdt' = cal_max_tdt
    /\ UNCHANGED <<cal_min_tdt, cal_max_tdt, entry_sensor_baseline,
                   exit_sensor_baseline, samples, seen_entry, seen_exit,
                   notices>>
    /\ UNCHANGED <<pc, err, state, now, timeout_time, entry_sensor_reading,
                   exit_sensor_reading, current_date, current_time,
                   date_bookmark, daily_log_path, daily_log_file, files,
                   emails>>

\* Enter at the baseline prompt and the two initial reads; lines 194-205.
BasePrompt ==
    /\ UNCHANGED slvars
    /\ cpc = "base_prompt"
    /\ \/ /\ CalRaise("SensorReadError")
          /\ UNCHANGED <<cal_min_tdt, cal_max_tdt, entry_sensor_baseline,
                         exit_sensor_baseline, samples, seen_entry,
                         seen_exit, notices>>
       \/ \E e \in CalReadings, x \in CalReadings :
          /\ entry_sensor_baseline' = e
          /\ exit_sensor_baseline' = x
          /\ seen_entry' = {e}
          /\ seen_exit' = {x}
          /\ samples' = 0
          /\ cpc' = "base_window_entry"
          /\ UNCHANGED <<cal_min_tdt, cal_max_tdt, notices>>
          /\ UNCHANGED vars

\* One iteration of the entry sensor's baseline loop; lines 208-214.
BaseSampleEntry ==
    /\ UNCHANGED slvars
    /\ cpc = "base_window_entry"
    /\ samples < MaxSamples
    /\ \/ /\ CalRaise("SensorReadError")
          /\ UNCHANGED <<cal_min_tdt, cal_max_tdt, entry_sensor_baseline,
                         exit_sensor_baseline, samples, seen_entry,
                         seen_exit, notices>>
       \/ \E e \in CalReadings :
          /\ seen_entry' = seen_entry \cup {e}
          /\ entry_sensor_baseline' = FoldMin(entry_sensor_baseline, e)
          /\ samples' = samples + 1
          /\ UNCHANGED <<cpc, cal_min_tdt, cal_max_tdt,
                         exit_sensor_baseline, seen_exit, notices>>
          /\ UNCHANGED vars

\* The entry window is over; lines 208 and 219-220.
BaseEndEntry ==
    /\ UNCHANGED slvars
    /\ cpc = "base_window_entry"
    /\ samples >= 1
    /\ cpc' = "base_window_exit"
    /\ samples' = 0
    /\ UNCHANGED <<cal_min_tdt, cal_max_tdt, entry_sensor_baseline,
                   exit_sensor_baseline, seen_entry, seen_exit, notices>>
    /\ UNCHANGED vars

\* One iteration of the exit sensor's baseline loop; lines 223-229.
BaseSampleExit ==
    /\ UNCHANGED slvars
    /\ cpc = "base_window_exit"
    /\ samples < MaxSamples
    /\ \/ /\ CalRaise("SensorReadError")
          /\ UNCHANGED <<cal_min_tdt, cal_max_tdt, entry_sensor_baseline,
                         exit_sensor_baseline, samples, seen_entry,
                         seen_exit, notices>>
       \/ \E x \in CalReadings :
          /\ seen_exit' = seen_exit \cup {x}
          /\ exit_sensor_baseline' = FoldMin(exit_sensor_baseline, x)
          /\ samples' = samples + 1
          /\ UNCHANGED <<cpc, cal_min_tdt, cal_max_tdt,
                         entry_sensor_baseline, seen_entry, notices>>
          /\ UNCHANGED vars

\* The exit window is over; line 223.
BaseEndExit ==
    /\ UNCHANGED slvars
    /\ cpc = "base_window_exit"
    /\ samples >= 1
    /\ cpc' = "base_return"
    /\ UNCHANGED <<cal_min_tdt, cal_max_tdt, entry_sensor_baseline,
                   exit_sensor_baseline, samples, seen_entry, seen_exit,
                   notices>>
    /\ UNCHANGED vars

\* The results go to the config and back into main()'s locals; lines
\* 233-234, 338-346 and 353-356.
Install ==
    /\ UNCHANGED slvars
    /\ cpc = "base_return"
    /\ cpc' = "calibrated"
    /\ min_tdt' = cal_min_tdt
    /\ max_tdt' = cal_max_tdt
    /\ UNCHANGED <<cal_min_tdt, cal_max_tdt, entry_sensor_baseline,
                   exit_sensor_baseline, samples, seen_entry, seen_exit,
                   notices>>
    /\ UNCHANGED <<pc, err, state, now, timeout_time, entry_sensor_reading,
                   exit_sensor_reading, current_date, current_time,
                   date_bookmark, daily_log_path, daily_log_file, files,
                   emails>>

\* Ctrl+C during calibration: handled inside a sampling loop (the message
\* is printed and the procedure goes on), raised anywhere else.
CalInterrupt ==
    /\ UNCHANGED slvars
    /\ cpc \in {"tdt_prompt1", "tdt_window1", "tdt_prompt2", "tdt_window2",
                "base_prompt", "base_window_entry", "base_window_exit"}
    /\ IF AfterInterrupt(cpc) = "raised"
       THEN /\ CalRaise("KeyboardInterrupt")
            /\ UNCHANGED <<cal_min_tdt, cal_max_tdt, entry_sensor_baseline,
                           exit_sensor_baseline, samples, seen_entry,
                           seen_exit, notices>>
       ELSE /\ cpc' = AfterInterrupt(cpc)
            /\ notices' = notices + 1
            /\ samples' = 0
            /\ UNCHANGED <<cal_min_tdt, cal_max_tdt, entry_sensor_baseline,
                           exit_sensor_baseline, seen_entry, seen_exit>>
            /\ UNCHANGED vars

CalNext ==
    \/ TdtPrompt1
    \/ TdtSample1
    \/ TdtEnd1
    \/ TdtPrompt2
    \/ TdtSample2
    \/ TdtEnd2
    \/ TdtReturn
    \/ BasePrompt
    \/ BaseSampleEntry
    \/ BaseEndEntry
    \/ BaseSampleExit
    \/ BaseEndExit
    \/ Install
    \/ CalInterrupt

SpecCal == CalInit /\ [][CalNext]_allvars

\* ------------------------------------------------------ sensor_logic.py
\* The single-sensor variant: evaluate_movement, log_event and the loop of
\* its main().  Distances are millimetres, the clock counts seconds.

trigger_distance == baseline_distance - obstruction_size

\* baseline_distance - (obstruction_size/2)
reset_distance == baseline_distance - (obstruction_size \div 2)

\* What read_distance() may return: below the trigger distance (two of the
\* values 5 mm apart), at the reset distance, above it.
SensorValues == {900, 905, 950, 1100, 1150}

SlClock == 0..MaxClock
SlDates == 0..(MaxClock \div DayLength)

\* Time one pass of the loop takes, time.sleep(poll_interval) included.
PassTimes == 1..MaxStep

SlHeaderRow == [kind |-> "header", date |-> Unbound, time |-> Unbound,
                foot_traffic |-> Unbound, person_leaves |-> Unbound]

\* The row log_event writes at time t.
SlEventRow(t, ft, pl) == [kind |-> "event", date |-> DateOf(t), time |-> t,
                          foot_traffic |-> ft, person_leaves |-> pl]

\* round(reading/10): to the nearest integer, a half to the even neighbour.
RoundCm(mm) ==
    LET q == mm \div 10
        r == mm % 10
    IN IF r < 5 THEN q
       ELSE IF r > 5 THEN q + 1
       ELSE IF q % 2 = 0 THEN q ELSE q + 1

\* evaluate_movement(readings).  The loop `for i in range(1, len(distances)-1)`
\* compares distances[i] with distances[i-1]; positions are counted from 1
\* here, so it visits the pairs (i, i+1) for i = 1 .. len-2.
evaluate_movement(rs) ==
    LET distances == [i \in 1..Len(rs) |-> RoundCm(rs[i][2])]
        visited == 1..(Len(distances) - 2)
        approach_count ==
            Cardinality({i \in visited : distances[i + 1] - distances[i] < 0})
        departure_count ==
            Cardinality({i \in visited : distances[i + 1] - distances[i] > 0})
    IN IF approach_count > departure_count THEN "entry"
       ELSE IF departure_count > approach_count THEN "exit"
       ELSE "None"

\* CountEvent leaving both counters alone on an undetermined direction.
CountEvent_SkipsUndetermined(dir) ==
    IF dir = "entry" THEN <<foot_traffic + 1, person_leaves>>
    ELSE IF dir = "exit" THEN <<foot_traffic, person_leaves + 1>>
    ELSE <<foot_traffic, person_leaves>>

\* `if direction == "entry": foot_traffic += 1 / else: person_leaves += 1`:
\* the two counters after it.
CountEvent(dir) ==
    IF dir = "entry" THEN <<foot_traffic + 1, person_leaves>>
    ELSE <<foot_traffic, person_leaves + 1>>

\* The timeout test at the end of a tracking pass.
TrackingTimedOut(rs, t) == rs # <<>> /\ t - rs[1][1] > TrackingTimeout

\* log_event(foot_traffic, person_leaves) at time t: the directory after it.
\* open(filename, 'a') creates the file; os.path.isfile is tested inside the
\* `with`, after the open.
log_event(fs, t, ft, pl) ==
    LET filename == DateOf(t)
        opened == IF filename \in DOMAIN fs THEN fs
                  ELSE (filename :> <<>>) @@ fs
        isfile == filename \in DOMAIN opened
        csvfile == IF ~isfile THEN Append(opened[filename], SlHeaderRow)
                   ELSE opened[filename]
    IN [opened EXCEPT ![filename] = Append(csvfile, SlEventRow(t, ft, pl))]

\* main() ends with an exception other than KeyboardInterrupt.
SlRaise(e) == sl_pc' = "crashed" /\ sl_err' = e

\* double_sensor_logic.py is not running.
DoubleOff ==
    /\ pc = "startup"
    /\ err = "none"
    /\ state = "idle"
    /\ now = 0
    /\ timeout_time = Unbound
    /\ min_tdt = Unbound
    /\ max_tdt = Unbound
    /\ entry_sensor_reading = Unbound
    /\ exit_sensor_reading = Unbound
    /\ current_date = Unbound
    /\ current_time = Unbound
    /\ date_bookmark = Unbound
    /\ daily_log_path = Unbound
    /\ daily_log_file = "unbound"
    /\ files = <<>>
    /\ emails = <<>>
    /\ cpc = "off"
    /\ cal_min_tdt = Unbound
    /\ cal_max_tdt = Unbound
    /\ entry_sensor_baseline = Unbound
    /\ exit_sensor_baseline = Unbound
    /\ samples = 0
    /\ seen_entry = {}
    /\ seen_exit = {}
    /\ notices = 0

\* main() of sensor_logic.py at `while True`; today's log may hold a row that
\* an earlier run wrote.
SlInit ==
    /\ DoubleOff
    /\ sl_pc = "loop"
    /\ sl_err = "none"
    /\ sl_state = "idle"
    /\ sl_now = 0
    /\ current_distance = Unbound
    /\ sl_current_time = Unbound
    /\ readings = <<>>
    /\ direction = "unbound"
    /\ foot_traffic = 0
    /\ person_leaves = 0
    /\ \E earlier \in SUBSET {DateOf(sl_now)} :
          sl_files = [f \in earlier |-> <<SlEventRow(sl_now, 0, 1)>>]

\* One pass of `while True`, lines 149-191.
Pass ==
    /\ sl_pc = "loop"
    /\ UNCHANGED <<vars, calvars>>
    /\ \/ \* read_distance() fails
          /\ SlRaise("SensorReadError")
          /\ UNCHANGED <<sl_state, sl_now, current_distance, sl_current_time,
                         readings, direction, foot_traffic, person_leaves,
                         sl_files>>
       \/ \E d \in SensorValues :
          /\ current_distance' = d
          /\ sl_current_time' = sl_now
          /\ IF sl_state = "idle"
             THEN /\ IF d < trigger_distance
                     THEN /\ sl_state' = "tracking"
                          /\ readings' = <<<<sl_now, d>>>>
                     ELSE UNCHANGED <<sl_state, readings>>
                  /\ UNCHANGED <<direction, foot_traffic, person_leaves,
                                 sl_files, sl_pc, sl_err>>
                  /\ \E dt \in PassTimes :
                        sl_now + dt \in SlClock /\ sl_now' = sl_now + dt
             ELSE /\ Len(readings) < MaxReadings
                  /\ LET appended == Append(readings, <<sl_now, d>>)
                     IN IF d > reset_distance
                        THEN /\ direction' = evaluate_movement(appended)
                             /\ foot_traffic' = CountEvent(direction')[1]
                             /\ person_leaves' = CountEvent(direction')[2]
                             /\ \/ /\ sl_files' = log_event(sl_files, sl_now,
                                                     foot_traffic',
                                                     person_leaves')
                                   /\ readings' = <<>>
                                   /\ sl_state' = "idle"
                                   /\ UNCHANGED <<sl_pc, sl_err>>
                                   /\ \E dt \in PassTimes :
                                         /\ sl_now + dt \in SlClock
                                         /\ sl_now' = sl_now + dt
                                \/ \* open() or writerow() fails
                                   /\ SlRaise("SinkWriteError")
                                   /\ readings' = appended
                                   /\ UNCHANGED <<sl_state, sl_now, sl_files>>
                        ELSE /\ IF TrackingTimedOut(appended, sl_now)
                                THEN readings' = <<>> /\ sl_state' = "idle"
                                ELSE readings' = appended /\ sl_state' = sl_state
                             /\ UNCHANGED <<direction, foot_traffic,
                                            person_leaves, sl_files, sl_pc,
                                            sl_err>>
                             /\ \E dt \in PassTimes :
                                   /\ sl_now + dt \in SlClock
                                   /\ sl_now' = sl_now + dt

\* Ctrl+C inside the try block: `except KeyboardInterrupt`, lines 192-193.
SlInterrupt ==
    /\ sl_pc = "loop"
    /\ sl_pc' = "stopped"
    /\ UNCHANGED <<vars, calvars>>
    /\ UNCHANGED <<sl_err, sl_state, sl_now, current_distance,
                   sl_current_time, readings, direction, foot_traffic,
                   person_leaves, sl_files>>

SlNext ==
    \/ Pass
    \/ SlInterrupt

SpecSingle == SlInit /\ [][SlNext]_slvars

\* ------------------------------------------------ vocabulary of the claims

\* d lies in the TDT window, bounds included.
InWindow(d) == min_tdt <= d /\ d <= max_tdt

\* The step ran to its end: every read and write it made succeeded and no
\* interrupt arrived.
Completed == pc' \notin {"crashed", "stopped"}

\* The step appended exactly one row, an event row with the given counts, to
\* one log, and changed no other log.
EmitsOne(en, ex) ==
    \E p \in DOMAIN files :
        /\ DOMAIN files' = DOMAIN files
        /\ Len(files'[p]) = Len(files[p]) + 1
        /\ files' = [files EXCEPT ![p] = Append(@, files'[p][Len(files'[p])])]
        /\ files'[p][Len(files'[p])].kind = "event"
        /\ files'[p][Len(files'[p])].entry = en
        /\ files'[p][Len(files'[p])].exit = ex

LastRow == files[daily_log_path][Len(files[daily_log_path])]

HasRows == /\ daily_log_path \in DOMAIN files
           /\ Len(files[daily_log_path]) > 0

\* ------------------------------------------------------------------ C1

\* C1: from Idle, a tick whose entry sample is inside the TDT window arms
\* maybe_entry without writing; a later completed sample taken in that state
\* whose exit reading is inside the window appends exactly one row with
\* entry=1, exit=0 and starts the dead-time; the dead-time writes nothing and,
\* unless the loop is interrupted, ends in Idle no sooner than ResetTime later.
C1_EntryConfirmed ==
    [][ /\ (pc = "tick" /\ state = "idle" /\ Completed
                /\ InWindow(entry_sensor_reading'))
           => (state' = "maybe_entry" /\ pc' = "maybe_entry_loop"
                 /\ files' = files)
        /\ (pc = "maybe_entry_loop" /\ Completed
                /\ InWindow(exit_sensor_reading'))
           => (state = "maybe_entry" /\ state' = "maybe_entry"
                 /\ EmitsOne(1, 0) /\ pc' = "reset_sleep")
        /\ (pc = "reset_sleep" /\ state = "maybe_entry" /\ Completed)
           => (state' = "idle" /\ files' = files
                 /\ now' >= now + ResetTime)
      ]_vars

\* An Entry row was written on a confirming exit sample and the dead-time is
\* over: the resolver is Idle again.
C1_Witness ==
    /\ pc = "poll_sleep" /\ state = "idle"
    /\ InWindow(exit_sensor_reading)
    /\ EventCount = 1
    /\ HasRows /\ LastRow.kind = "event"
    /\ LastRow.entry = 1 /\ LastRow.exit = 0

\* ------------------------------------------------------------------ C2

\* C2: maybe_exit is entered only from Idle on a tick whose exit sample is in
\* the window and whose entry sample is not; a row with exit=1 is appended
\* exactly by a completed sample of the maybe_exit loop whose entry reading is
\* in the window; that step appends one row (entry=0, exit=1) and the
\* dead-time that follows ends in Idle.
C2_ExitExactlyOnConfirm ==
    [][ /\ (state # "maybe_exit" /\ state' = "maybe_exit")
           => (pc = "tick" /\ state = "idle"
                 /\ InWindow(exit_sensor_reading')
                 /\ ~InWindow(entry_sensor_reading'))
        /\ (\E en \in {0, 1} : EmitsOne(en, 1))
           <=> (pc = "maybe_exit_loop" /\ state = "maybe_exit" /\ Completed
                  /\ InWindow(entry_sensor_reading'))
        /\ (\E en \in {0, 1} : EmitsOne(en, 1))
           => (EmitsOne(0, 1) /\ pc' = "reset_sleep")
        /\ (pc = "reset_sleep" /\ state = "maybe_exit" /\ Completed)
           => (state' = "idle" /\ files' = files)
      ]_vars

\* An Exit row was written on a confirming entry sample and the resolver is
\* Idle again.
C2_Witness ==
    /\ pc = "poll_sleep" /\ state = "idle"
    /\ InWindow(entry_sensor_reading)
    /\ EventCount = 1
    /\ HasRows /\ LastRow.kind = "event"
    /\ LastRow.entry = 0 /\ LastRow.exit = 1

\* ------------------------------------------------------------------ C3

\* C3: every step that changes the logs' event rows is taken in a candidate
\* state, on a completed sample whose other-sensor reading is in the window,
\* and writes the row of that candidate; a candidate state is entered only on
\* a sample whose own-sensor reading is in the window, so both sensors have
\* read inside the window before any row; nothing is written in Idle.
C3_OnlyOnConfirm ==
    [][ /\ (EventCount' # EventCount)
           => /\ state # "idle"
              /\ pc' = "reset_sleep"
              /\ \/ (state = "maybe_entry" /\ pc = "maybe_entry_loop"
                       /\ InWindow(exit_sensor_reading') /\ EmitsOne(1, 0))
                 \/ (state = "maybe_exit" /\ pc = "maybe_exit_loop"
                       /\ InWindow(entry_sensor_reading') /\ EmitsOne(0, 1))
        /\ (state # "maybe_entry" /\ state' = "maybe_entry")
           => (state = "idle" /\ InWindow(entry_sensor_reading'))
        /\ (state # "maybe_exit" /\ state' = "maybe_exit")
           => (state = "idle" /\ InWindow(exit_sensor_reading'))
        /\ (pc = "reset_sleep" /\ Completed) => state' = "idle"
      ]_vars

\* A row has just been written: the resolver is in a candidate state, at the
\* start of the dead-time, with the confirming reading in the window.
C3_Witness ==
    /\ pc = "reset_sleep"
    /\ EventCount = 1
    /\ \/ (state = "maybe_entry" /\ InWindow(exit_sensor_reading))
       \/ (state = "maybe_exit" /\ InWindow(entry_sensor_reading))

\* ------------------------------------------------------------------ C4

\* C4: a completed Idle tick whose entry and exit samples are both inside the
\* window leaves the resolver in maybe_entry.
C4_EntryPriority ==
    [][ (pc = "tick" /\ state = "idle" /\ Completed
            /\ InWindow(entry_sensor_reading')
            /\ InWindow(exit_sensor_reading'))
        => state' = "maybe_entry"
      ]_vars

\* Just after such a tick: maybe_entry armed at this instant with both of the
\* tick's readings in the window and nothing written.
C4_Witness ==
    /\ pc = "maybe_entry_loop" /\ state = "maybe_entry"
    /\ InWindow(entry_sensor_reading) /\ InWindow(exit_sensor_reading)
    /\ timeout_time = ArmDeadline(now)
    /\ current_time = now

\* ------------------------------------------------------------------ C5

Loops == {"maybe_entry_loop", "maybe_exit_loop"}

\* C5: no step that arms a candidate or keeps it waiting writes a row, and a
\* completed sample of a waiting candidate taken at or after the deadline
\* with both readings strictly above max_tdt returns the resolver to Idle and
\* writes nothing.
C5_TimeoutAbandons ==
    [][ /\ (pc' \in Loops) => files' = files
        /\ (pc \in Loops /\ Completed
              /\ now' >= timeout_time
              /\ entry_sensor_reading' > max_tdt
              /\ exit_sensor_reading' > max_tdt)
           => (state' = "idle" /\ pc' = "poll_sleep" /\ files' = files)
      ]_vars

\* A candidate was armed, nothing was ever written, and the resolver is back
\* in Idle on a sample past the deadline with both sensors clear.
C5_Witness ==
    /\ pc = "poll_sleep" /\ state = "idle"
    /\ timeout_time # Unbound /\ now >= timeout_time
    /\ entry_sensor_reading > max_tdt /\ exit_sensor_reading > max_tdt
    /\ EventCount = 0

\* ------------------------------------------------------------------ C6

\* C6: a step that writes a row starts the dead-time; the only steps out of
\* the dead-time are the interrupt, which ends the loop, and the return of
\* the sleep, which comes no sooner than ResetTime after the row was written,
\* writes nothing and leaves the resolver Idle; a candidate is armed only by
\* a tick, so none is armed and no row is written inside the dead-time.
C6_DeadTime ==
    [][ /\ (EventCount' # EventCount) => pc' = "reset_sleep"
        /\ (pc = "reset_sleep")
           => /\ EventCount' = EventCount
              /\ \/ (pc' = "stopped" /\ state' = state /\ now' = now)
                 \/ /\ pc' = "poll_sleep" /\ state' = "idle"
                    /\ now' >= now + ResetTime
        /\ (state = "idle" /\ state' # "idle") => pc = "tick"
      ]_vars

\* A second row has been written: a candidate was armed and confirmed after
\* the dead-time of the first row.
C6_Witness ==
    /\ pc = "reset_sleep"
    /\ EventCount = 2

\* ------------------------------------------------------------------ C7

\* C7 (as claimed): on the step that writes an Entry or Exit row, neither
\* sample of that step lies inside the TDT window.
C7_DecisionOutsideTDT ==
    [][ (EventCount' # EventCount)
        => (~InWindow(entry_sensor_reading')
              /\ ~InWindow(exit_sensor_reading'))
      ]_vars

\* ------------------------------------------------------------------ C8

\* C8: with the window written out as min_tdt <= d <= max_tdt, a completed
\* Idle tick arms maybe_entry iff its entry sample is in the window and
\* maybe_exit iff its entry sample is not and its exit sample is; a completed
\* sample of the maybe_entry loop confirms iff its exit reading is in the
\* window, and one of the maybe_exit loop iff its entry reading is.
C8_InclusiveWindow ==
    [][ /\ (pc = "tick" /\ state = "idle" /\ Completed)
           => /\ state' = "maybe_entry"
                 <=> (min_tdt <= entry_sensor_reading'
                        /\ entry_sensor_reading' <= max_tdt)
              /\ state' = "maybe_exit"
                 <=> (/\ ~(min_tdt <= entry_sensor_reading'
                             /\ entry_sensor_reading' <= max_tdt)
                      /\ min_tdt <= exit_sensor_reading'
                      /\ exit_sensor_reading' <= max_tdt)
        /\ (pc = "maybe_entry_loop" /\ Completed)
           => (pc' = "reset_sleep"
                 <=> (min_tdt <= exit_sensor_reading'
                        /\ exit_sensor_reading' <= max_tdt))
        /\ (pc = "maybe_exit_loop" /\ Completed)
           => (pc' = "reset_sleep"
                 <=> (min_tdt <= entry_sensor_reading'
                        /\ entry_sensor_reading' <= max_tdt))
      ]_vars

\* A confirmation on a reading equal to the upper bound of a window that
\* holds more than one distance.
C8_Witness ==
    /\ pc = "reset_sleep" /\ state = "maybe_entry"
    /\ min_tdt < max_tdt
    /\ exit_sensor_reading = max_tdt

\* ------------------------------------------------------------------ C9

\* C9 (as claimed): a step in which a sensor read fails writes no row, leaves
\* the resolver state as it was, and leaves the loop running.
C9_ReadFailureAbortsTickOnly ==
    [][ (err = "none" /\ err' = "SensorReadError")
        => (EventCount' = EventCount /\ state' = state
              /\ pc' \in {"tick", "poll_sleep"})
      ]_vars

\* ----------------------------------------------------------------- C10

\* A confirming step: a completed sample of a waiting candidate whose
\* other-sensor reading is in the window.
Confirming ==
    \/ (pc = "maybe_entry_loop" /\ Completed
          /\ InWindow(exit_sensor_reading'))
    \/ (pc = "maybe_exit_loop" /\ Completed
          /\ InWindow(entry_sensor_reading'))

\* Every candidate is armed by its own tick and its row carries that tick's
\* current_time, so rows of one candidate are rows with the same time.
OneRowPerCandidate ==
    \A p \in DOMAIN files :
        \A i, j \in 1..Len(files[p]) :
            (i # j /\ files[p][i].kind = "event" /\ files[p][j].kind = "event")
            => files[p][i].time # files[p][j].time

\* C10: a confirming step adds exactly one event row, every other step adds
\* none (a timeout in particular), and no two rows belong to one candidate.
C10_OneRowPerConfirm ==
    /\ []OneRowPerCandidate
    /\ [][ /\ Confirming => (EventCount' = EventCount + 1
                               /\ (EmitsOne(1, 0) \/ EmitsOne(0, 1)))
           /\ ~Confirming => EventCount' = EventCount
           /\ (pc \in Loops /\ pc' = "poll_sleep") => files' = files
         ]_vars

\* One candidate was confirmed and wrote its row; a later candidate, armed
\* by a later tick, has just been abandoned by timeout without a row.
C10_Witness ==
    /\ pc = "poll_sleep" /\ state = "idle"
    /\ EventCount = 1
    /\ HasRows /\ LastRow.kind = "event"
    /\ timeout_time > LastRow.time + EventTimeout
    /\ now >= timeout_time
    /\ entry_sensor_reading > max_tdt /\ exit_sensor_reading > max_tdt

\* ----------------------------------------------------------------- C11

\* C11 (as claimed): the row a confirming step writes carries the date and
\* the time of that step.
C11_RowCarriesConfirmTime ==
    [][ (EventCount' # EventCount)
        => LET rows == files'[daily_log_path]
           IN /\ rows[Len(rows)].time = now'
              /\ rows[Len(rows)].date = DateOf(now')
      ]_vars

\* ----------------------------------------------------------------- C16

\* The candidate of the current tick has its row in the logs.
CandidateRecorded ==
    \E p \in DOMAIN files : \E i \in 1..Len(files[p]) :
        files[p][i].kind = "event" /\ files[p][i].time = current_time

\* C16 (as claimed): when the loop has been cancelled, no event is recorded
\* for a candidate whose state is still the candidate state.
C16_NoEventLeftInCandidate ==
    (pc = "stopped" /\ state # "idle") => ~CandidateRecorded

\* C16 (amended): the interrupt ends the loop at the position it arrives at,
\* changing nothing else: the logs, the resolver state, the deadline and the
\* clock are as before it, and no step follows it.
C16_InterruptEndsLoopAsIs ==
    [][ /\ pc # "stopped"
        /\ (pc' = "stopped")
           => (files' = files /\ state' = state /\ now' = now
                 /\ timeout_time' = timeout_time /\ err' = err)
      ]_vars

\* The loop was cancelled in the dead-time: the row is recorded and the
\* state is still the candidate state.
C16_Witness ==
    /\ pc = "stopped"
    /\ state # "idle"
    /\ CandidateRecorded

\* ----------------------------------------------------------------- C17

\* C17: a failed write ends main() with the exception: the step writes
\* nothing, it is taken on a confirming sample of a waiting candidate, and no
\* step follows it, so the run loop neither goes on nor writes the row again.
C17_SinkErrorPropagates ==
    [][ /\ pc # "crashed"
        /\ (err' = "SinkWriteError")
           => /\ pc' = "crashed"
              /\ files' = files
              /\ \/ (pc = "maybe_entry_loop"
                       /\ InWindow(exit_sensor_reading'))
                 \/ (pc = "maybe_exit_loop"
                       /\ InWindow(entry_sensor_reading'))
      ]_vars

\* main() has ended on a failed write of a confirmed candidate's row.
C17_Witness ==
    /\ pc = "crashed" /\ err = "SinkWriteError"
    /\ state # "idle"
    /\ EventCount = 0

\* ----------------------------------------------------------------- C18

\* C18: a waiting candidate returns to Idle without a row only on a sample
\* taken at or after the deadline with both readings strictly above max_tdt;
\* on every other completed, non-confirming sample it stays where it is.
C18_AbandonOnlyWhenCleared ==
    [][ /\ (pc \in Loops /\ pc' = "poll_sleep")
           => /\ now' >= timeout_time
              /\ entry_sensor_reading' > max_tdt
              /\ exit_sensor_reading' > max_tdt
              /\ files' = files
        /\ (pc \in Loops /\ Completed /\ ~Confirming
              /\ (\/ now' < timeout_time
                  \/ entry_sensor_reading' <= max_tdt
                  \/ exit_sensor_reading' <= max_tdt))
           => (pc' = pc /\ state' = state /\ files' = files)
      ]_vars

\* Past the deadline, the candidate is still waiting on a sample whose own
\* sensor reads exactly max_tdt and whose other sensor has cleared.
C18_Witness ==
    /\ pc = "maybe_entry_loop" /\ state = "maybe_entry"
    /\ now >= timeout_time
    /\ entry_sensor_reading = max_tdt
    /\ exit_sensor_reading > max_tdt

\* ----------------------------------------------------------------- C20

\* While a candidate waits, its deadline is its arming tick's time plus
\* EventTimeout.
DeadlineOfCandidate ==
    (pc \in Loops) => timeout_time = current_time + EventTimeout

\* C20: the deadline is set by the step that leaves Idle, to the time of that
\* step plus EventTimeout, and by no other step; a waiting candidate's
\* deadline is the one armed by its own tick, and the abandoning step tests
\* the clock against it.
C20_DeadlineArmedOnce ==
    /\ []DeadlineOfCandidate
    /\ [][ /\ (state = "idle" /\ state' # "idle")
              => (pc = "tick" /\ timeout_time' = now' + EventTimeout)
           /\ ~(state = "idle" /\ state' # "idle")
              => timeout_time' = timeout_time
           /\ (pc \in Loops /\ pc' = "poll_sleep")
              => now' >= current_time + EventTimeout
         ]_vars

\* A second candidate waits past its own deadline, armed after the first
\* candidate's row.
C20_Witness ==
    /\ pc \in Loops
    /\ EventCount = 1
    /\ HasRows /\ LastRow.kind = "event"
    /\ timeout_time > LastRow.time + EventTimeout
    /\ now >= timeout_time

\* ----------------------------------------------------------------- C12

\* The least element of a non-empty set of readings.
MinOf(S) == CHOOSE m \in S : \A y \in S : m <= y

\* C12 (as claimed): when a TDT sampling window that took readings ends, the
\* value it leaves (min_tdt for the first window, max_tdt for the second) is
\* the least reading either sensor returned in that window.
C12_WindowMinimum ==
    [][ /\ (cpc = "tdt_window1" /\ cpc' = "tdt_prompt2"
              /\ seen_entry \cup seen_exit # {})
           => cal_min_tdt' = MinOf(seen_entry \cup seen_exit)
        /\ (cpc = "tdt_window2" /\ cpc' = "tdt_return"
              /\ seen_entry \cup seen_exit # {})
           => cal_max_tdt' = MinOf(seen_entry \cup seen_exit)
      ]_allvars

\* ----------------------------------------------------------------- C13

\* C13 (as claimed): a window that calibration produced and main() installed
\* satisfies 0 <= min_tdt <= max_tdt.
C13_WindowOrdered ==
    (cpc = "calibrated") => (0 <= min_tdt /\ min_tdt <= max_tdt)

\* ----------------------------------------------------------------- C14

\* While a TDT window samples, its value is the least of the start value and
\* the readings taken so far; once set_tdt_values returns, both values are
\* bound.
TdtAccumulated ==
    /\ (cpc = "tdt_window1")
       => cal_min_tdt = MinOf(seen_entry \cup seen_exit \cup {TdtStartValue})
    /\ (cpc = "tdt_window2")
       => cal_max_tdt = MinOf(seen_entry \cup seen_exit \cup {TdtStartValue})
    /\ (cpc \in {"tdt_return", "base_prompt"})
       => (cal_min_tdt # Unbound /\ cal_max_tdt # Unbound)

\* C14: Ctrl+C inside a TDT sampling window is never raised; it prints the
\* notice, keeps min_tdt and max_tdt as accumulated so far and moves on, from
\* the first window to the second window's prompt and from the second window
\* to the return of the pair.
C14_InterruptEndsWindowOnly ==
    /\ []TdtAccumulated
    /\ [][ /\ (cpc \in {"tdt_window1", "tdt_window2"})
              => err' # "KeyboardInterrupt"
           /\ (cpc \in {"tdt_window1", "tdt_window2"}
                 /\ notices' # notices)
              => /\ notices' = notices + 1
                 /\ cal_min_tdt' = cal_min_tdt
                 /\ cal_max_tdt' = cal_max_tdt
                 /\ cpc' = IF cpc = "tdt_window1" THEN "tdt_prompt2"
                           ELSE "tdt_return"
         ]_allvars

\* Both windows were interrupted after taking readings, and the pair is
\* returned with the minimum the first window had observed.
C14_Witness ==
    /\ cpc = "tdt_return"
    /\ notices = 2
    /\ cal_min_tdt < TdtStartValue
    /\ cal_max_tdt = MinOf(seen_entry \cup seen_exit \cup {TdtStartValue})
    /\ seen_entry # {}

\* ----------------------------------------------------------------- C15

\* C15 (as claimed): no interrupt or error, at whatever point it arrives,
\* makes a calibration procedure raise to its caller.
C15_NeverRaises == cpc # "raised"

\* ----------------------------------------------------------------- C19

\* Once set_baseline_values has returned, each baseline is the least reading
\* its own sensor returned (initial read and own window).
BaselinesOwnMinimum ==
    (cpc \in {"base_return", "calibrated"})
    => /\ entry_sensor_baseline = MinOf(seen_entry)
       /\ exit_sensor_baseline = MinOf(seen_exit)

\* C19: each returned baseline is the minimum of its own sensor's readings;
\* after the initial reads, the entry baseline changes only in the entry
\* window and the exit baseline only in the exit window, and an interrupt
\* changes neither.
C19_BaselinesIndependent ==
    /\ []BaselinesOwnMinimum
    /\ [][ /\ (cpc # "base_prompt"
                 /\ entry_sensor_baseline' # entry_sensor_baseline)
              => (cpc = "base_window_entry" /\ notices' = notices
                    /\ exit_sensor_baseline' = exit_sensor_baseline)
           /\ (cpc # "base_prompt"
                 /\ exit_sensor_baseline' # exit_sensor_baseline)
              => (cpc = "base_window_exit" /\ notices' = notices
                    /\ entry_sensor_baseline' = entry_sensor_baseline)
         ]_allvars

\* The entry window was interrupted after a reading, the exit window went on
\* to find a lower value, and the baselines returned differ.
C19_Witness ==
    /\ cpc = "base_return"
    /\ notices >= 1
    /\ Cardinality(seen_entry) >= 2
    /\ Cardinality(seen_exit) >= 2
    /\ exit_sensor_baseline < entry_sensor_baseline
    /\ entry_sensor_baseline < TdtStartValue

\* ----------------------------------------------------------------- C21

\* C21: a completed sample of a waiting candidate taken at or after the
\* deadline whose other-sensor reading is in the window still writes the
\* candidate's row, exactly one, and starts the dead-time; the deadline alone
\* abandons nothing: a candidate leaves its loop without a row only with both
\* readings strictly above max_tdt, and the dead-time after the row adds none.
C21_DeadlineDoesNotBoundConfirm ==
    [][ /\ (pc = "maybe_entry_loop" /\ Completed /\ now' >= timeout_time
              /\ InWindow(exit_sensor_reading'))
           => (EmitsOne(1, 0) /\ EventCount' = EventCount + 1
                 /\ pc' = "reset_sleep")
        /\ (pc = "maybe_exit_loop" /\ Completed /\ now' >= timeout_time
              /\ InWindow(entry_sensor_reading'))
           => (EmitsOne(0, 1) /\ EventCount' = EventCount + 1
                 /\ pc' = "reset_sleep")
        /\ (pc \in Loops /\ pc' = "poll_sleep")
           => (entry_sensor_reading' > max_tdt
                 /\ exit_sensor_reading' > max_tdt)
        /\ (pc = "reset_sleep") => EventCount' = EventCount
      ]_vars

\* A candidate was confirmed strictly after its deadline, on a sample whose
\* own sensor had cleared: its single row is written and the dead-time runs.
C21_Witness ==
    /\ pc = "reset_sleep" /\ state = "maybe_entry"
    /\ now > timeout_time
    /\ entry_sensor_reading > max_tdt
    /\ InWindow(exit_sensor_reading)
    /\ EventCount = 1
    /\ HasRows /\ LastRow.time + EventTimeout = timeout_time

\* ----------------------------------------------------------------- C22

\* main() has ended: no more samples are taken.
Halted == pc \in {"crashed", "stopped"}

\* Both of the latest readings are strictly above max_tdt.
BothClear == entry_sensor_reading > max_tdt /\ exit_sensor_reading > max_tdt

\* The deadline of a waiting candidate lies within the explored clock range.
DeadlineInRange == (pc \in Loops) => timeout_time <= MaxTime

\* C22: while the loop keeps sampling and the clock moves on, a behaviour in
\* which both sensors read above max_tdt from some point on ends up Idle for
\* good; a waiting candidate leaves its loop only on a confirming sample or
\* on a sample at or after the deadline with both readings above max_tdt,
\* and a completed sample with one reading at or below max_tdt and the other
\* sensor's reading outside the window leaves the candidate where it is.
C22_LeavesCandidateOnlyByConfirmOrTimeout ==
    /\ (<>[](BothClear /\ ~Halted /\ DeadlineInRange))
       => <>[](state = "idle")
    /\ [][ /\ (pc \in Loops /\ Completed /\ pc' # pc)
              => \/ Confirming
                 \/ /\ now' >= timeout_time
                    /\ entry_sensor_reading' > max_tdt
                    /\ exit_sensor_reading' > max_tdt
                    /\ state' = "idle"
           /\ (pc = "maybe_entry_loop" /\ Completed
                 /\ ~InWindow(exit_sensor_reading')
                 /\ (entry_sensor_reading' <= max_tdt
                       \/ exit_sensor_reading' <= max_tdt))
              => (pc' = pc /\ state' = "maybe_entry")
           /\ (pc = "maybe_exit_loop" /\ Completed
                 /\ ~InWindow(entry_sensor_reading')
                 /\ (entry_sensor_reading' <= max_tdt
                       \/ exit_sensor_reading' <= max_tdt))
              => (pc' = pc /\ state' = "maybe_exit")
         ]_vars

\* A maybe_exit candidate is still waiting at the end of the clock, past its
\* deadline: its own sensor has never cleared and the entry sensor reads
\* below the window.
C22_Witness ==
    /\ pc = "maybe_exit_loop" /\ state = "maybe_exit"
    /\ now = MaxTime /\ now > timeout_time
    /\ exit_sensor_reading <= max_tdt
    /\ entry_sensor_reading < min_tdt

\* ----------------------------------------------------------------- C23

\* The tick about to run is the first whose date differs from the bookmark:
\* the tick before it ran on the bookmarked date.
FirstTickOfNewDay ==
    /\ pc = "tick"
    /\ DateOf(now) # date_bookmark
    /\ current_date = date_bookmark

\* C23 (as claimed): the tick on which the date first differs from the
\* bookmarked date hands the bookmarked day's log to send_email, and no other
\* step sends anything, so each rollover is emailed once.
C23_EmailOncePerRollover ==
    [][ /\ (FirstTickOfNewDay /\ pc' # "stopped")
           => emails' = Append(emails, date_bookmark)
        /\ (emails' # emails) => FirstTickOfNewDay
      ]_vars

\* ----------------------------------------------------------------- C24

\* Every log that holds an event row starts with the header row.
HeaderFirst ==
    \A p \in DOMAIN files :
        (Len(EventRows(files[p])) > 0) => files[p][1] = HeaderRow

\* C24 (as claimed): a tick that finds no log for today (and gets past the
\* rollover email) creates the log holding just the header row and goes on to
\* its reads without an error of its own making; every log with an event row
\* starts with the header row.
C24_LogCreatedWithHeader ==
    /\ []HeaderFirst
    /\ [][ (/\ pc = "tick" /\ pc' # "stopped"
            /\ DateOf(now) \notin DOMAIN files
            /\ (DateOf(now) = date_bookmark \/ daily_log_path # Unbound))
           => /\ DateOf(now) \in DOMAIN files'
              /\ files'[DateOf(now)] = <<HeaderRow>>
              /\ err' \in {"none", "SensorReadError"}
         ]_vars

\* ----------------------------------------------------------------- C25

\* The pass is the one that ends a tracking episode on a reading above
\* reset_distance: evaluate_movement is called on the episode's readings.
EpisodeEnds == sl_state = "tracking" /\ current_distance' > reset_distance

\* The readings handed to evaluate_movement by that pass.
EpisodeReadings == Append(readings, <<sl_current_time', current_distance'>>)

\* The vote over every adjacent pair of the cm-rounded distances, the last
\* pair included.
MajorityOfAllDeltas(rs) ==
    LET cm == [i \in 1..Len(rs) |-> RoundCm(rs[i][2])]
        pairs == 1..(Len(rs) - 1)
        negative == Cardinality({i \in pairs : cm[i + 1] - cm[i] < 0})
        positive == Cardinality({i \in pairs : cm[i + 1] - cm[i] > 0})
    IN IF negative > positive THEN "entry"
       ELSE IF positive > negative THEN "exit"
       ELSE "None"

\* C25 (as claimed): the direction evaluate_movement returns for an episode
\* is the majority vote over all consecutive differences of its cm-rounded
\* distances, the last pair included.
C25_MajorityOverAllPairs ==
    [][ EpisodeEnds => direction' = MajorityOfAllDeltas(EpisodeReadings)
      ]_slvars

\* ----------------------------------------------------------------- C26

\* The pass ran to its end: the read and the write it made succeeded.
SlCompleted == sl_pc' = "loop"

\* The rows of log f, none if there is no such log.
SlRows(fs, f) == IF f \in DOMAIN fs THEN fs[f] ELSE <<>>

\* The step added exactly one event row, the one log_event writes for the
\* counters as they are after the step, to the log of the day, and changed
\* no other log.
LogsOnce ==
    LET f == DateOf(sl_current_time')
        after == SlRows(sl_files', f)
    IN /\ DOMAIN sl_files' = DOMAIN sl_files \cup {f}
       /\ \A g \in DOMAIN sl_files : g # f => sl_files'[g] = sl_files[g]
       /\ Len(EventRows(after)) = Len(EventRows(SlRows(sl_files, f))) + 1
       /\ after[Len(after)] =
              SlEventRow(sl_current_time', foot_traffic', person_leaves')

\* C26: a completed pass that ends a tracking episode on a reading above
\* reset_distance adds 1 to exactly one counter, foot_traffic iff
\* evaluate_movement returned "entry" and person_leaves otherwise ("None"
\* included), logs once and leaves the loop idle with no readings; a tracking
\* episode that ends otherwise ends by the timeout and changes no counter and
\* no log; the counters change on no other step and never decrease.
C26_EpisodeCountsOnce ==
    [][ /\ (EpisodeEnds /\ SlCompleted)
           => /\ direction' = evaluate_movement(EpisodeReadings)
              /\ IF direction' = "entry"
                 THEN /\ foot_traffic' = foot_traffic + 1
                      /\ person_leaves' = person_leaves
                 ELSE /\ foot_traffic' = foot_traffic
                      /\ person_leaves' = person_leaves + 1
              /\ LogsOnce
              /\ sl_state' = "idle" /\ readings' = <<>>
        /\ (sl_state = "tracking" /\ sl_state' = "idle" /\ ~EpisodeEnds)
           => /\ sl_current_time' - readings[1][1] > TrackingTimeout
              /\ foot_traffic' = foot_traffic
              /\ person_leaves' = person_leaves
              /\ sl_files' = sl_files
        /\ ~EpisodeEnds
           => (foot_traffic' = foot_traffic /\ person_leaves' = person_leaves
                 /\ sl_files' = sl_files)
        /\ foot_traffic' >= foot_traffic
        /\ person_leaves' >= person_leaves
      ]_slvars

\* An episode counted as an entry, then an episode whose direction was
\* undetermined counted as a leave, both logged; the loop is idle again.
C26_Witness ==
    /\ sl_pc = "loop" /\ sl_state = "idle" /\ readings = <<>>
    /\ foot_traffic = 1 /\ person_leaves = 1
    /\ direction = "None"
    /\ current_distance > reset_distance
    /\ DateOf(sl_current_time) \in DOMAIN sl_files
    /\ LET rows == sl_files[DateOf(sl_current_time)]
       IN /\ Len(rows) >= 2
          /\ rows[Len(rows)] = SlEventRow(sl_current_time, 1, 1)
          /\ rows[Len(rows) - 1].foot_traffic = 1
          /\ rows[Len(rows) - 1].person_leaves = 0

\* ----------------------------------------------------------------- C27

\* C27 (as claimed): a call of log_event that finds no log for the day leaves
\* a log whose first row is the header row, followed by the row of the call.
C27_HeaderWrittenFirst ==
    [][ (/\ sl_files' # sl_files
         /\ DateOf(sl_current_time') \notin DOMAIN sl_files)
        => /\ DateOf(sl_current_time') \in DOMAIN sl_files'
           /\ sl_files'[DateOf(sl_current_time')] =
                  <<SlHeaderRow,
                    SlEventRow(sl_current_time', foot_traffic',
                               person_leaves')>>
      ]_slvars

====
